---- MODULE Spec2Model ----
(***************************************************************************)
(* Model of BUS_TICKET_BOOKING_SYSTEM_SOURSE_CODE.py: a SQLite store with  *)
(* the tables buses and tickets, the handlers add_bus, book_ticket and     *)
(* view_bookings, and the process-wide connection and cursor they share.   *)
(*                                                                         *)
(* Python values are records [t, s, h]: t is the type, s the characters of *)
(* a str (ASCII codes), h the number of halves of a float (h = 5 is 2.5).  *)
(* Strings are over the alphabet space, digits, 'a'..'z'; the inputs used  *)
(* contain no sign, dot, underscore or the words inf/nan.                  *)
(***************************************************************************)
EXTENDS Integers, Sequences, FiniteSets, TLC

VARIABLES buses, tickets, last, pc, loc, cursorRows, log

vars == <<buses, tickets, last, pc, loc, cursorRows, log>>

\* ---------------------------------------------------------------- bounds
MaxBuses == 2
MaxTickets == 2

\* ---------------------------------------------------------------- values
SP == 32

NoneV == [t |-> "none", s |-> <<>>, h |-> 0]
Str(chars) == [t |-> "str", s |-> chars, h |-> 0]
Num(halves) == [t |-> "num", s |-> <<>>, h |-> halves]
NaN == [t |-> "nan", s |-> <<>>, h |-> 0]
Inf == [t |-> "inf", s |-> <<>>, h |-> 0]
ListV == [t |-> "list", s |-> <<>>, h |-> 0]

\* Python truth value of an argument: None, "", 0 and 0.0 are false.
Truthy(v) ==
  CASE v.t = "none" -> FALSE
    [] v.t = "str" -> Len(v.s) > 0
    [] v.t = "num" -> v.h # 0
    [] OTHER -> TRUE

RECURSIVE LStrip(_)
LStrip(s) == IF s # <<>> /\ Head(s) = SP THEN LStrip(Tail(s)) ELSE s

RECURSIVE RStrip(_)
RStrip(s) ==
  IF s # <<>> /\ s[Len(s)] = SP THEN RStrip(SubSeq(s, 1, Len(s) - 1)) ELSE s

\* variant: only the leading blanks are removed
StripLeading(s) == LStrip(s)

\* str.strip()
Strip(s) == RStrip(LStrip(s))

IsDigit(c) == c >= 48 /\ c <= 57

RECURSIVE DigitsValue(_)
DigitsValue(s) ==
  IF s = <<>> THEN 0
  ELSE 10 * DigitsValue(SubSeq(s, 1, Len(s) - 1)) + (s[Len(s)] - 48)

\* a str that int() and float() accept: digits, surrounding blanks allowed
IsNumeral(s) == Strip(s) # <<>> /\ \A i \in 1..Len(Strip(s)) : IsDigit(Strip(s)[i])

\* int() of a float: truncation toward zero (h counts halves)
Trunc(h) == IF h >= 0 THEN h \div 2 ELSE -((-h) \div 2)

Conv(kind, n) == [kind |-> kind, n |-> n]

\* int(float(total_seats)) of add_bus: an integer or the exception raised
IntOfFloat(v) ==
  CASE v.t = "none" -> Conv("TypeError", 0)
    [] v.t = "list" -> Conv("TypeError", 0)
    [] v.t = "str" -> IF IsNumeral(v.s) THEN Conv("int", DigitsValue(Strip(v.s)))
                      ELSE Conv("ValueError", 0)
    [] v.t = "num" -> Conv("int", Trunc(v.h))
    [] v.t = "nan" -> Conv("ValueError", 0)
    [] v.t = "inf" -> Conv("OverflowError", 0)

\* int(seat_number) of book_ticket
IntOf(v) ==
  CASE v.t = "none" -> Conv("TypeError", 0)
    [] v.t = "list" -> Conv("TypeError", 0)
    [] v.t = "str" -> IF IsNumeral(v.s) THEN Conv("int", DigitsValue(Strip(v.s)))
                      ELSE Conv("ValueError", 0)
    [] v.t = "num" -> Conv("int", Trunc(v.h))
    [] v.t = "nan" -> Conv("ValueError", 0)
    [] v.t = "inf" -> Conv("OverflowError", 0)

\* ---------------------------------------------------------------- tables
\* rows of buses: [id, bus_name, from_city, to_city, total_seats]
\* rows of tickets: [id, passenger_name, bus_id, travel_date, seat_number]
\* ids are AUTOINCREMENT and no row is ever deleted: id = position.

\* UNIQUE(bus_name) of the buses table
BusNameTaken(bs, name) == \E i \in 1..Len(bs) : bs[i].bus_name = name

\* variant: the unique key leaves out travel_date
SeatTakenAnyDate(ts, bus_id, date, seat) ==
  \E i \in 1..Len(ts) : ts[i].bus_id = bus_id /\ ts[i].seat_number = seat

\* UNIQUE(bus_id, travel_date, seat_number) of the tickets table
SeatTaken(ts, bus_id, date, seat) ==
  \E i \in 1..Len(ts) :
    ts[i].bus_id = bus_id /\ ts[i].travel_date = date /\ ts[i].seat_number = seat

\* SELECT id, total_seats FROM buses WHERE bus_name = ? : the result rows
SelectBus(bs, name) ==
  IF \E i \in 1..Len(bs) : bs[i].bus_name = name
  THEN LET b == bs[CHOOSE i \in 1..Len(bs) : bs[i].bus_name = name]
       IN << [id |-> b.id, total_seats |-> b.total_seats] >>
  ELSE <<>>

\* ---------------------------------------------------------------- results
Required == "All fields are required."
NotPositive == "Total seats must be a positive integer."
NotNumber == "Total seats must be a valid number."
NameExists == "That bus name already exists."
BusAdded == "Bus added."
SeatNotInt == "Seat number must be an integer."
BusNotFound == "Selected bus not found."
SeatRange == "Seat must be between 1 and total_seats."
SeatBooked == "That seat is already booked on that date."
Booked == "Ticket booked."
Listing == "bookings"
NoBookings == "No bookings yet."
Unhandled == {"OverflowError", "TypeError", "AttributeError", "sqlite3.InterfaceError"}
Raised(e) == e

Outcome(r, bs, ts) == [result |-> r, buses |-> bs, tickets |-> ts]

BusRow(bs, name, from, to, seats) ==
  [id |-> Len(bs) + 1, bus_name |-> name, from_city |-> from, to_city |-> to,
   total_seats |-> seats]

TicketRow(ts, passenger, bus_id, date, seat) ==
  [id |-> Len(ts) + 1, passenger_name |-> passenger, bus_id |-> bus_id,
   travel_date |-> date, seat_number |-> seat]

\* variant: the buses table without UNIQUE(bus_name)
InsertBusUnchecked(bs, ts, name, from, to, seats) ==
  Outcome(BusAdded, Append(bs, BusRow(bs, name, from, to, seats)), ts)

\* INSERT INTO buses ...; conn.commit()
InsertBus(bs, ts, name, from, to, seats) ==
  IF BusNameTaken(bs, name) THEN Outcome(NameExists, bs, ts)
  ELSE Outcome(BusAdded, Append(bs, BusRow(bs, name, from, to, seats)), ts)

\* variant: the tickets table without its UNIQUE constraint
InsertTicketUnchecked(bs, ts, passenger, bus_id, date, seat) ==
  Outcome(Booked, bs, Append(ts, TicketRow(ts, passenger, bus_id, date, seat)))

\* INSERT INTO tickets ...; conn.commit()
InsertTicket(bs, ts, passenger, bus_id, date, seat) ==
  IF SeatTaken(ts, bus_id, date, seat) THEN Outcome(SeatBooked, bs, ts)
  ELSE Outcome(Booked, bs, Append(ts, TicketRow(ts, passenger, bus_id, date, seat)))

\* def add_bus(bus_name, from_city, to_city, total_seats)
add_bus(bs, ts, bus_name, from_city, to_city, total_seats) ==
  IF ~(Truthy(bus_name) /\ Truthy(from_city) /\ Truthy(to_city))
  THEN Outcome(Required, bs, ts)
  ELSE LET seats == IntOfFloat(total_seats) IN
    CASE seats.kind \in {"ValueError", "TypeError"} -> Outcome(NotNumber, bs, ts)
      [] seats.kind = "OverflowError" -> Outcome(Raised("OverflowError"), bs, ts)
      [] OTHER ->
           IF seats.n <= 0 THEN Outcome(NotPositive, bs, ts)
           ELSE IF \E v \in {bus_name, from_city, to_city} : v.t # "str"
           THEN Outcome(Raised("AttributeError"), bs, ts)
           ELSE InsertBus(bs, ts, Strip(bus_name.s), Strip(from_city.s),
                          Strip(to_city.s), seats.n)

Pass == "pass"

\* lines 82-87 of book_ticket: presence check and int(seat_number)
BookValidate(passenger_name, bus_name, travel_date, seat_number) ==
  IF ~(Truthy(passenger_name) /\ Truthy(bus_name) /\ Truthy(travel_date)
       /\ Truthy(seat_number))
  THEN Required
  ELSE LET seat == IntOf(seat_number) IN
    CASE seat.kind = "ValueError" -> SeatNotInt
      [] seat.kind \in {"TypeError", "OverflowError"} -> Raised(seat.kind)
      [] OTHER -> IF bus_name.t # "str" THEN Raised("sqlite3.InterfaceError")
                  ELSE Pass

\* variant: the range check excludes the last seat
BookCheckExclusive(rows, seat) ==
  IF rows = <<>> THEN BusNotFound
  ELSE IF ~(1 <= seat /\ seat < rows[1].total_seats) THEN SeatRange
  ELSE Pass

\* lines 90-95 of book_ticket: bus = cursor.fetchone() and the range check
BookCheck(rows, seat) ==
  IF rows = <<>> THEN BusNotFound
  ELSE IF ~(1 <= seat /\ seat <= rows[1].total_seats) THEN SeatRange
  ELSE Pass

\* lines 97-105 of book_ticket: the INSERT with the fetched bus row
BookInsert(bs, ts, bus, passenger_name, travel_date, seat) ==
  IF passenger_name.t # "str" \/ travel_date.t # "str"
  THEN Outcome(Raised("AttributeError"), bs, ts)
  ELSE InsertTicket(bs, ts, Strip(passenger_name.s), bus.id,
                    Strip(travel_date.s), seat)

\* def book_ticket(passenger_name, bus_name, travel_date, seat_number)
book_ticket(bs, ts, passenger_name, bus_name, travel_date, seat_number) ==
  LET v == BookValidate(passenger_name, bus_name, travel_date, seat_number) IN
  IF v # Pass THEN Outcome(v, bs, ts)
  ELSE LET seat == IntOf(seat_number).n
           rows == SelectBus(bs, bus_name.s)
           c == BookCheck(rows, seat) IN
    IF c # Pass THEN Outcome(c, bs, ts)
    ELSE BookInsert(bs, ts, rows[1], passenger_name, travel_date, seat)

\* ---------------------------------------------------------------- listing
\* comparison of TEXT values under SQLite's BINARY collation
RECURSIVE StrLess(_, _)
StrLess(a, b) ==
  IF b = <<>> THEN FALSE
  ELSE IF a = <<>> THEN TRUE
  ELSE IF Head(a) # Head(b) THEN Head(a) < Head(b)
  ELSE StrLess(Tail(a), Tail(b))

\* variant: ORDER BY b.bus_name, t.travel_date, t.seat_number
RowBeforeBusFirst(r1, r2) ==
  \/ StrLess(r1.bus_name, r2.bus_name)
  \/ /\ r1.bus_name = r2.bus_name
     /\ \/ StrLess(r1.travel_date, r2.travel_date)
        \/ r1.travel_date = r2.travel_date /\ r1.seat_number < r2.seat_number

\* ORDER BY t.travel_date, b.bus_name, t.seat_number
RowBefore(r1, r2) ==
  \/ StrLess(r1.travel_date, r2.travel_date)
  \/ /\ r1.travel_date = r2.travel_date
     /\ \/ StrLess(r1.bus_name, r2.bus_name)
        \/ r1.bus_name = r2.bus_name /\ r1.seat_number < r2.seat_number

\* FROM tickets t JOIN buses b ON t.bus_id = b.id
JoinRows(bs, ts) ==
  { [id |-> ts[i].id, passenger_name |-> ts[i].passenger_name,
     bus_name |-> bs[j].bus_name, travel_date |-> ts[i].travel_date,
     seat_number |-> ts[i].seat_number] :
    <<i, j>> \in { ij \in (1..Len(ts)) \X (1..Len(bs)) : ts[ij[1]].bus_id = bs[ij[2]].id } }

RECURSIVE OrderBy(_)
OrderBy(rows) ==
  IF rows = {} THEN <<>>
  ELSE LET first == CHOOSE r \in rows : \A q \in rows : ~RowBefore(q, r)
       IN <<first>> \o OrderBy(rows \ {first})

\* def view_bookings(): the rows fetched by the SELECT
view_bookings(bs, ts) == OrderBy(JoinRows(bs, ts))

\* ---------------------------------------------------------------- calls
NoArgs == <<>>
NoCall == [op |-> "none", args |-> NoArgs, result |-> "none",
           buses0 |-> <<>>, tickets0 |-> <<>>, rows |-> <<>>]

Call(o, a, r, rows) ==
  [op |-> o, args |-> a, result |-> r, buses0 |-> buses, tickets0 |-> tickets,
   rows |-> rows]

Threads == {1, 2}
NoLoc == [passenger_name |-> NoneV, bus_name |-> NoneV, travel_date |-> NoneV,
          seat |-> 0, bus |-> <<>>]
NoThreadRuns == \A t \in Threads : pc[t] = "idle"

\* one whole call of add_bus, no other call in progress
AddBus(n, f, t, c) ==
  LET out == add_bus(buses, tickets, n, f, t, c) IN
  /\ last.op = "none" /\ NoThreadRuns
  /\ Len(out.buses) <= MaxBuses
  /\ buses' = out.buses
  /\ tickets' = out.tickets
  /\ last' = Call("add_bus", <<n, f, t, c>>, out.result, <<>>)
  /\ UNCHANGED <<pc, loc, cursorRows, log>>

\* one whole call of book_ticket, no other call in progress
BookTicket(p, b, d, s) ==
  LET out == book_ticket(buses, tickets, p, b, d, s) IN
  /\ last.op = "none" /\ NoThreadRuns
  /\ Len(out.tickets) <= MaxTickets
  /\ buses' = out.buses
  /\ tickets' = out.tickets
  /\ last' = Call("book_ticket", <<p, b, d, s>>, out.result, <<>>)
  /\ UNCHANGED <<pc, loc, cursorRows, log>>

\* one whole call of view_bookings
ViewBookings ==
  LET rows == view_bookings(buses, tickets) IN
  /\ last.op = "none" /\ NoThreadRuns
  /\ last' = Call("view_bookings", NoArgs,
                  IF rows = <<>> THEN NoBookings ELSE Listing, rows)
  /\ UNCHANGED <<buses, tickets, pc, loc, cursorRows, log>>

\* the status textbox shows the returned text; the next click may follow
Render ==
  /\ last.op # "none"
  /\ last' = NoCall
  /\ UNCHANGED <<buses, tickets, pc, loc, cursorRows, log>>

\* ------------------------------------------------- interleaved execution
\* Gradio runs the handlers of concurrent clicks on worker threads; all of
\* them use the module-level conn and cursor (lines 9-10).  A step is one
\* statement on the shared cursor together with the local code around it.

Returned(t) == /\ pc' = [pc EXCEPT ![t] = "idle"]
               /\ loc' = [loc EXCEPT ![t] = NoLoc]

\* add_bus on thread t: its only cursor statement is the INSERT (line 63)
AddBusStmt(t, n, f, d, c) ==
  LET out == add_bus(buses, tickets, n, f, d, c) IN
  /\ last.op = "none"
  /\ pc[t] = "idle"
  /\ Len(out.buses) <= MaxBuses
  /\ buses' = out.buses
  /\ cursorRows' = IF out.result \in {BusAdded, NameExists} THEN <<>> ELSE cursorRows
  /\ UNCHANGED <<tickets, last, pc, loc, log>>

\* book_ticket on thread t, lines 82-89: up to cursor.execute(SELECT ...)
BookSelectStmt(t, p, b, d, s) ==
  LET v == BookValidate(p, b, d, s) IN
  /\ last.op = "none"
  /\ pc[t] = "idle"
  /\ Len(tickets) + Cardinality({u \in Threads : pc[u] # "idle"}) < MaxTickets
  /\ IF v # Pass THEN UNCHANGED <<pc, loc, cursorRows>>
     ELSE /\ cursorRows' = SelectBus(buses, b.s)
          /\ pc' = [pc EXCEPT ![t] = "L90"]
          /\ loc' = [loc EXCEPT ![t] = [passenger_name |-> p, bus_name |-> b,
                                         travel_date |-> d, seat |-> IntOf(s).n,
                                         bus |-> <<>>]]
  /\ UNCHANGED <<buses, tickets, last, log>>

\* book_ticket on thread t, lines 90-95: cursor.fetchone() and the checks
BookFetchStmt(t) ==
  /\ pc[t] = "L90"
  /\ cursorRows' = IF cursorRows = <<>> THEN <<>> ELSE Tail(cursorRows)
  /\ IF BookCheck(cursorRows, loc[t].seat) # Pass THEN Returned(t)
     ELSE /\ pc' = [pc EXCEPT ![t] = "L98"]
          /\ loc' = [loc EXCEPT ![t].bus = <<cursorRows[1]>>]
  /\ UNCHANGED <<buses, tickets, last, log>>

\* book_ticket on thread t, lines 97-105: cursor.execute(INSERT ...), commit
BookInsertStmt(t) ==
  LET l == loc[t]
      out == BookInsert(buses, tickets, l.bus[1], l.passenger_name,
                        l.travel_date, l.seat) IN
  /\ pc[t] = "L98"
  /\ tickets' = out.tickets
  /\ cursorRows' = IF out.result \in Unhandled THEN cursorRows ELSE <<>>
  /\ log' = IF out.result = Booked
            THEN log \cup {[bus_name |-> l.bus_name.s, ticket |-> Len(out.tickets)]}
            ELSE log
  /\ Returned(t)
  /\ UNCHANGED <<buses, last>>

\* ---------------------------------------------------------- specifications
Init ==
  /\ buses = <<>>
  /\ tickets = <<>>
  /\ last = NoCall
  /\ pc = [t \in Threads |-> "idle"]
  /\ loc = [t \in Threads |-> NoLoc]
  /\ cursorRows = <<>>
  /\ log = {}

\* argument values tried (ASCII: 32 ' ', 50 '2', 97 'a', 98 'b', 112 'p',
\* 120 'x', 121 'y')
BusNames == {Str(<<97>>), Str(<<98>>)}
BusArgs == { <<Str(<<97>>), Num(2)>>, <<Str(<<98>>), Num(5)>> }
Passengers == {NoneV, Str(<<SP>>), Str(<<SP, 112>>)}
BusNameArgs == {Str(<<97>>), Str(<<98>>)}
Dates == {Str(<<SP>>), Str(<<97>>), Str(<<SP, 97>>), Str(<<98>>)}
SeatArgs == {Num(0), Num(2), Num(4), Num(5), Num(6), Inf, Str(<<97>>), Str(<<50>>), ListV}

Next ==
  \/ \E a \in BusArgs : AddBus(a[1], Str(<<120>>), Str(<<121>>), a[2])
  \/ \E p \in Passengers, b \in BusNameArgs, d \in Dates, s \in SeatArgs :
       BookTicket(p, b, d, s)
  \/ ViewBookings
  \/ Render

Spec == Init /\ [][Next]_vars

\* the catalog alone, with the full range of add_bus arguments
CatalogNames == {NoneV, Str(<<>>), Str(<<SP>>), Str(<<97>>), Str(<<SP, 97>>),
                 Str(<<98>>), ListV}
CatalogFrom == {NoneV, Str(<<SP>>), Str(<<SP, 120, SP>>)}
CatalogTo == {Str(<<>>), Str(<<121>>)}
CatalogSeats == {NoneV, Num(0), Num(1), Num(2), Num(5), Num(-2), NaN, Inf,
                 Str(<<97>>), Str(<<SP, 50>>), ListV}

NextCatalog ==
  \/ \E n \in CatalogNames, f \in CatalogFrom, t \in CatalogTo, c \in CatalogSeats :
       AddBus(n, f, t, c)
  \/ Render

SpecCatalog == Init /\ [][NextCatalog]_vars

\* concurrent clicks: two worker threads, well-formed arguments
ConcSeats == {Num(2), Num(4)}

NextConc ==
  \E t \in Threads :
    \/ \E n \in BusNames, c \in ConcSeats : AddBusStmt(t, n, Str(<<120>>), Str(<<121>>), c)
    \/ \E b \in BusNames, s \in ConcSeats :
         BookSelectStmt(t, Str(<<112>>), b, Str(<<97>>), s)
    \/ BookFetchStmt(t)
    \/ BookInsertStmt(t)

SpecConc == Init /\ [][NextConc]_vars

\* ------------------------------------------------------------- properties
ValidationError == {Required, NotPositive, NotNumber, SeatNotInt, SeatRange}
DuplicateNameError == NameExists
NotFoundError == BusNotFound
ConflictError == SeatBooked

\* a string that is non-empty after trimming
NonBlank(v) == v.t = "str" /\ \E i \in 1..Len(v.s) : v.s[i] # SP
\* a missing value or a string that is empty after trimming
Blank(v) == v.t = "none" \/ (v.t = "str" /\ \A i \in 1..Len(v.s) : v.s[i] = SP)
\* a whole number n, passed as a number
Whole(v) == v.t = "num" /\ v.h % 2 = 0
WholeOf(v) == v.h \div 2

IsAddBus == last.op = "add_bus"
IsBook == last.op = "book_ticket"
Arg(i) == last.args[i]

\* the bus of the store before the call whose name is exactly the string n
BusNamed(bs, n) == { i \in 1..Len(bs) : bs[i].bus_name = n }

\* C1: no two stored tickets have the same (bus_id, travel_date,
\* seat_number), whatever calls succeeded or failed before.
C1_UniqueSeat ==
  \A i, j \in 1..Len(tickets) :
    i # j => <<tickets[i].bus_id, tickets[i].travel_date, tickets[i].seat_number>>
             # <<tickets[j].bus_id, tickets[j].travel_date, tickets[j].seat_number>>

C1_Witness ==
  /\ IsBook /\ last.result = SeatBooked
  /\ Len(tickets) >= 2
  /\ \E i, j \in 1..Len(tickets) :
       i # j /\ tickets[i].bus_id = tickets[j].bus_id
             /\ tickets[i].seat_number = tickets[j].seat_number

\* a book_ticket call with valid arguments for seat s of the existing bus i
ValidBooking(i) ==
  /\ IsBook
  /\ NonBlank(Arg(1)) /\ NonBlank(Arg(3)) /\ Whole(Arg(4))
  /\ Arg(2).t = "str" /\ i \in BusNamed(last.buses0, Arg(2).s)

\* C2: of two valid book_ticket calls for the same bus, date and seat, the
\* one executed first (seat still free) succeeds and stores its ticket; the
\* other (seat taken by then) fails with ConflictError and stores nothing.
C2_FirstWins ==
  \A i \in 1..Len(last.buses0) :
    (ValidBooking(i) /\ WholeOf(Arg(4)) \in 1..last.buses0[i].total_seats) =>
      LET taken == \E k \in 1..Len(last.tickets0) :
                     /\ last.tickets0[k].bus_id = last.buses0[i].id
                     /\ last.tickets0[k].travel_date = Strip(Arg(3).s)
                     /\ last.tickets0[k].seat_number = WholeOf(Arg(4))
      IN IF taken
         THEN last.result = ConflictError /\ tickets = last.tickets0
         ELSE /\ last.result = Booked
              /\ Len(tickets) = Len(last.tickets0) + 1
              /\ SubSeq(tickets, 1, Len(last.tickets0)) = last.tickets0
              /\ tickets[Len(tickets)].bus_id = last.buses0[i].id
              /\ tickets[Len(tickets)].travel_date = Strip(Arg(3).s)
              /\ tickets[Len(tickets)].seat_number = WholeOf(Arg(4))

\* the second of two calls with the same bus, date and seat was rejected,
\* the first one's ticket being the only one for that seat
C2_Witness ==
  /\ IsBook /\ last.result = SeatBooked /\ tickets = last.tickets0
  /\ \E i \in 1..Len(buses) : ValidBooking(i)
  /\ \E k \in 1..Len(tickets) :
       /\ tickets[k].travel_date = Strip(Arg(3).s)
       /\ tickets[k].seat_number = WholeOf(Arg(4))
       /\ buses[tickets[k].bus_id].bus_name = Arg(2).s

\* C3: on a bus with capacity C and a date on which the seat is free, a
\* valid book_ticket succeeds for seat 1..C and fails with ValidationError,
\* storing nothing, for seat 0 and seat C+1.
C3_SeatRange ==
  \A i \in 1..Len(last.buses0) :
    ValidBooking(i) =>
      LET C == last.buses0[i].total_seats
          seat == WholeOf(Arg(4))
      IN /\ (seat \in 1..C /\ ~\E k \in 1..Len(last.tickets0) :
                                 /\ last.tickets0[k].bus_id = last.buses0[i].id
                                 /\ last.tickets0[k].travel_date = Strip(Arg(3).s)
                                 /\ last.tickets0[k].seat_number = seat)
            => (last.result = Booked /\ Len(tickets) = Len(last.tickets0) + 1
                /\ tickets[Len(tickets)].seat_number = seat)
         /\ seat \in {0, C + 1}
            => (last.result \in ValidationError /\ tickets = last.tickets0)

\* the last seat of a two-seat bus was booked
C3_Witness ==
  /\ IsBook /\ last.result = Booked
  /\ \E i \in 1..Len(buses) :
       /\ ValidBooking(i) /\ buses[i].total_seats = 2
       /\ tickets[Len(tickets)].seat_number = buses[i].total_seats
       /\ tickets[Len(tickets)].bus_id = i

\* a capacity that is a whole number greater than zero
WholeCapacity(v) == Whole(v) /\ WholeOf(v) > 0

\* every stored bus has non-empty name, origin and destination
WellFormed(bs) ==
  \A i \in 1..Len(bs) :
    bs[i].bus_name # <<>> /\ bs[i].from_city # <<>> /\ bs[i].to_city # <<>>

\* C4 as stated: add_bus with a name already in the catalog always fails
\* with DuplicateNameError and leaves the stored buses unchanged (looked at
\* in a catalog of well-formed buses).
C4_AsStated ==
  (IsAddBus /\ WellFormed(last.buses0)
   /\ Arg(1).t = "str" /\ BusNamed(last.buses0, Arg(1).s) # {})
    => (last.result = DuplicateNameError /\ buses = last.buses0)

\* C4: add_bus with a non-empty name already in the catalog leaves the
\* stored buses unchanged, and fails with DuplicateNameError when origin,
\* destination and capacity are valid; no two stored buses share a name.
C4_DuplicateName ==
  /\ (IsAddBus /\ Arg(1).t = "str" /\ BusNamed(last.buses0, Arg(1).s) # {})
       => /\ buses = last.buses0
          /\ last.result # BusAdded
          /\ (NonBlank(Arg(1)) /\ NonBlank(Arg(2)) /\ NonBlank(Arg(3))
              /\ WholeCapacity(Arg(4))) => last.result = DuplicateNameError
  /\ \A i, j \in 1..Len(buses) : i # j => buses[i].bus_name # buses[j].bus_name

C4_Witness ==
  /\ IsAddBus /\ last.result = NameExists
  /\ Arg(1).t = "str" /\ BusNamed(last.buses0, Arg(1).s) # {}
  /\ buses = last.buses0 /\ Len(buses) >= 1

\* a capacity that is a finite number or numeral but not a positive integer
NotPositiveInt(v) ==
  \/ v.t \in {"none", "nan", "list"}
  \/ v.t = "num" /\ (v.h % 2 # 0 \/ v.h <= 0)
  \/ v.t = "str" /\ (~IsNumeral(v.s) \/ DigitsValue(Strip(v.s)) <= 0)

\* C5: add_bus fails with ValidationError and stores no bus when name,
\* origin or destination is empty after trimming or capacity is not a
\* positive integer; every stored bus has non-empty name, origin and
\* destination and capacity > 0.
C5_ValidatedBus ==
  /\ (IsAddBus /\ (Blank(Arg(1)) \/ Blank(Arg(2)) \/ Blank(Arg(3))
                   \/ NotPositiveInt(Arg(4))))
       => (last.result \in ValidationError /\ buses = last.buses0)
  /\ \A i \in 1..Len(buses) :
       /\ buses[i].bus_name # <<>> /\ buses[i].from_city # <<>>
       /\ buses[i].to_city # <<>> /\ buses[i].total_seats > 0

\* C6 as stated: for valid arguments with an unused name add_bus succeeds
\* and the lookup by that same name finds a bus with exactly the values
\* passed.
C6_AsStated ==
  (IsAddBus /\ NonBlank(Arg(1)) /\ NonBlank(Arg(2)) /\ NonBlank(Arg(3))
   /\ WholeCapacity(Arg(4)) /\ BusNamed(last.buses0, Arg(1).s) = {})
    => /\ last.result = BusAdded
       /\ \E i \in 1..Len(buses) :
            /\ SelectBus(buses, Arg(1).s)
                 = << [id |-> buses[i].id, total_seats |-> buses[i].total_seats] >>
            /\ buses[i].bus_name = Arg(1).s /\ buses[i].from_city = Arg(2).s
            /\ buses[i].to_city = Arg(3).s /\ buses[i].total_seats = WholeOf(Arg(4))

\* the string without its leading and trailing blanks
RECURSIVE Trimmed(_)
Trimmed(s) ==
  IF s = <<>> THEN s
  ELSE IF s[1] = SP THEN Trimmed(SubSeq(s, 2, Len(s)))
  ELSE IF s[Len(s)] = SP THEN Trimmed(SubSeq(s, 1, Len(s) - 1))
  ELSE s

\* C6: for name, origin and destination non-empty after trimming, a whole
\* capacity > 0 and a trimmed name not yet used, add_bus succeeds and the
\* lookup by the trimmed name finds a bus whose name, origin and
\* destination are the trimmed values and whose capacity is the one passed.
C6_AddThenFind ==
  (IsAddBus /\ NonBlank(Arg(1)) /\ NonBlank(Arg(2)) /\ NonBlank(Arg(3))
   /\ WholeCapacity(Arg(4)) /\ BusNamed(last.buses0, Trimmed(Arg(1).s)) = {})
    => /\ last.result = BusAdded
       /\ Len(buses) = Len(last.buses0) + 1
       /\ \E i \in 1..Len(buses) :
            /\ SelectBus(buses, Trimmed(Arg(1).s))
                 = << [id |-> buses[i].id, total_seats |-> buses[i].total_seats] >>
            /\ buses[i].bus_name = Trimmed(Arg(1).s)
            /\ buses[i].from_city = Trimmed(Arg(2).s)
            /\ buses[i].to_city = Trimmed(Arg(3).s)
            /\ buses[i].total_seats = WholeOf(Arg(4))

\* a bus was added under a name passed with surrounding blanks
C6_Witness ==
  /\ IsAddBus /\ last.result = BusAdded
  /\ NonBlank(Arg(1)) /\ NonBlank(Arg(2)) /\ WholeCapacity(Arg(4))
  /\ Arg(1).s # Trimmed(Arg(1).s) /\ Arg(2).s # Trimmed(Arg(2).s)
  /\ buses[Len(buses)].bus_name = Trimmed(Arg(1).s)

\* C7: book_ticket fails with ValidationError and stores no ticket when
\* passenger_name, bus_name, travel_date or seat_number is missing or empty
\* after trimming; every stored ticket has a non-empty passenger_name and
\* travel_date.
C7_ValidatedTicket ==
  /\ (IsBook /\ \E i \in 1..4 : Blank(Arg(i)))
       => (last.result \in ValidationError /\ tickets = last.tickets0)
  /\ \A k \in 1..Len(tickets) :
       tickets[k].passenger_name # <<>> /\ tickets[k].travel_date # <<>>

\* (travel_date, bus_name, seat_number) of r1 is not after that of r2
C8_KeyLeq(r1, r2) ==
  \/ StrLess(r1.travel_date, r2.travel_date)
  \/ /\ r1.travel_date = r2.travel_date
     /\ \/ StrLess(r1.bus_name, r2.bus_name)
        \/ r1.bus_name = r2.bus_name /\ r1.seat_number <= r2.seat_number

\* C8: view_bookings returns every stored ticket exactly once, joined with
\* its bus, in ascending order of (travel_date, bus_name, seat_number).
C8_SortedListing ==
  last.op = "view_bookings" =>
    /\ Len(last.rows) = Len(tickets)
    /\ \A k \in 1..Len(tickets) :
         \E i \in 1..Len(last.rows) :
           /\ last.rows[i].id = tickets[k].id
           /\ last.rows[i].passenger_name = tickets[k].passenger_name
           /\ last.rows[i].travel_date = tickets[k].travel_date
           /\ last.rows[i].seat_number = tickets[k].seat_number
           /\ last.rows[i].bus_name = buses[tickets[k].bus_id].bus_name
    /\ \A i, j \in 1..Len(last.rows) :
         i < j => C8_KeyLeq(last.rows[i], last.rows[j])
    /\ (last.result = NoBookings) = (tickets = <<>>)

\* a listing whose order differs from the insertion order and from the
\* order of the bus names alone
C8_Witness ==
  /\ last.op = "view_bookings" /\ Len(last.rows) >= 2
  /\ last.rows[1].id > last.rows[2].id
  /\ last.rows[1].travel_date # last.rows[2].travel_date
  /\ StrLess(last.rows[2].bus_name, last.rows[1].bus_name)

\* C9: every call of add_bus and book_ticket returns a success or error
\* text; none ends with an unhandled exception.
C9_NoUnhandledError ==
  (IsAddBus \/ IsBook) => last.result \notin Unhandled

\* C10: every ticket inserted by book_ticket(p, bus_name, d, s) carries the
\* id of the bus named bus_name and a seat within that bus's capacity, under
\* any interleaving of the calls' statements on the shared cursor.
C10_OwnBusRow ==
  \A e \in log :
    \E i \in 1..Len(buses) :
      /\ buses[i].bus_name = e.bus_name
      /\ tickets[e.ticket].bus_id = buses[i].id
      /\ tickets[e.ticket].seat_number \in 1..buses[i].total_seats

====
